---- MODULE Spec2Model ----
(***************************************************************************)
(* A model of the enesNews35 news portal: the public listing view (Index), *)
(* the public detail view (Article), the admin dashboard in its Supabase   *)
(* and its localStorage variants, and the inline image upload.             *)
(*                                                                         *)
(* Text is a sequence of characters.  The alphabet is small but keeps      *)
(* what the code's string operations distinguish: upper and lower case     *)
(* letters, the three Greek sigmas (String.prototype.toLowerCase maps a    *)
(* capital sigma to the final form at the end of a word), and a blank.     *)
(***************************************************************************)
EXTENDS Integers, Sequences, FiniteSets, TLC

\* ------------------------------------------------------------------ bounds
MaxId == 2          \* records the remote store ever creates
MaxQueryLen == 1    \* length of a typed search term
MaxPending == 1     \* requests of one kind one view has in flight
MaxClock == 2       \* ticks of the browser's clock
MaxLocal == 2       \* articles a localStorage dashboard holds
MaxTyped == 2       \* characters of a draft's content that were typed
MaxUploads == 1     \* files the storage bucket ever receives
MaxRefresh == 2     \* list refreshes of a dashboard in flight at once

\* ------------------------------------------------------------------ text
Upper == {"A", "SIGMA"}
Lower == {"a", "sigma", "fsigma"}
Letters == Upper \cup Lower
Blank == " "

Cased(c) == c \in Letters

\* Unicode simple lower-case mapping of one character.
LowerChar(c) ==
  CASE c = "A" -> "a"
    [] c = "SIGMA" -> "sigma"
    [] OTHER -> c

\* Unicode Final_Sigma: preceded by a cased letter, not followed by one
\* (the alphabet has no case-ignorable character).
FinalSigma(s, i) ==
  /\ i > 1
  /\ Cased(s[i - 1])
  /\ (i = Len(s) \/ ~Cased(s[i + 1]))

\* String.prototype.toLowerCase(), per character, with the context rule.
ToLowerCase(s) ==
  [i \in 1..Len(s) |->
     IF s[i] = "SIGMA" /\ FinalSigma(s, i) THEN "fsigma" ELSE LowerChar(s[i])]

\* a containment test that the empty string never passes
IncludesNonEmpty(s, q) ==
  /\ q # <<>>
  /\ \E i \in 0..(Len(s) - Len(q)) : SubSeq(s, i + 1, i + Len(q)) = q

\* String.prototype.includes(q)
Includes(s, q) ==
  \E i \in 0..(Len(s) - Len(q)) : SubSeq(s, i + 1, i + Len(q)) = q

\* String.prototype.substring(from, to): arguments clamped to 0..length and
\* swapped when from > to; offsets are 0-based, `to` exclusive.
Clamp(n, len) == IF n < 0 THEN 0 ELSE IF n > len THEN len ELSE n

Substring(s, from, to) ==
  LET a == Clamp(from, Len(s))
      b == Clamp(to, Len(s))
      lo == IF a <= b THEN a ELSE b
      hi == IF a <= b THEN b ELSE a
  IN  SubSeq(s, lo + 1, hi)

SubstringFrom(s, from) == Substring(s, from, Len(s))

\* n copies of character c
Rep(c, n) == [i \in 1..n |-> c]

\* ------------------------------------------------------------------ state
VARIABLES
  \* the remote `articles` table and the calls that reached it
  store,              \* set of rows
  nextId,             \* the id the store assigns to the next inserted row
  lastCall,           \* the last insert / delete call sent to the table
  \* session
  user,               \* useAuth().user: NoUser or an actor id
  page,               \* the route that is mounted
  \* Index (Supabase variant)
  idxArticles,        \* articles
  searchTerm,
  filteredArticles,
  idxFetch,           \* fetchArticles() of the mount effect: "pending" / "done"
  filterEffect,       \* TRUE while the [searchTerm, articles] effect is queued
  idxNotice,          \* the toasts shown
  \* Article (Supabase variant)
  routeId,            \* useParams().id
  article,
  loading,
  detailReqs,         \* ids of the by-id fetches in flight
  \* AdminDashboard (Supabase variant)
  articles,
  isAddingArticle,
  newArticle,         \* the draft: [title, content, category, image]
  toast,              \* the last toast shown
  insertReqs,         \* insert payloads awaiting the store's answer
  deleteReqs,         \* ids of the deletes awaiting the store's answer
  listReqs,           \* fetchArticles() calls the store has not answered
  listResps,          \* answers of fetchArticles() calls not yet delivered
  \* localStorage variant: the browser's storage and clock, one tab's
  \* AdminDashboard and Article
  newsArticles,       \* localStorage "newsArticles": NoItem or Item(list)
  adminLoggedIn,      \* localStorage "adminLoggedIn" is set
  now,                \* Date.now()
  localPage,          \* "dashboard" while AdminDashboard is mounted
  localArticles,      \* AdminDashboard: articles
  localDraft,         \* AdminDashboard: newArticle
  localAdding,        \* AdminDashboard: isAddingArticle
  localToast,         \* AdminDashboard: the last toast shown
  deletedIds,         \* ids whose delete has been carried out
  localRouteId,       \* Article: useParams().id
  localArticle,       \* Article: article
  \* AdminDashboard (Supabase variant): the image upload of the form
  isUploadingImage,   \* isUploadingImage
  cursor,             \* contentTextareaRef.current.selectionStart
  upload,             \* handleImageUpload in flight: the await it is at, its closure
  bucket,             \* the storage holds the 'images' bucket
  objects             \* files stored in the bucket

storeVars == <<store, nextId, lastCall>>
idxVars == <<idxArticles, searchTerm, filteredArticles, idxFetch, filterEffect, idxNotice>>
detailVars == <<routeId, article, loading, detailReqs>>
adminVars == <<articles, isAddingArticle, newArticle, toast,
               insertReqs, deleteReqs, listReqs, listResps>>
localVars == <<newsArticles, adminLoggedIn, now, localPage, localArticles, localDraft,
               localAdding, localToast, deletedIds, localRouteId, localArticle>>
uploadVars == <<isUploadingImage, cursor, upload, bucket, objects>>
vars == <<storeVars, user, page, idxVars, detailVars, adminVars, localVars, uploadVars>>

NoUser == "none"
Actors == {"u1"}
\* further actors whose session a dashboard may start under
OtherActors == {"u2"}
NoArticle == [id |-> 0]
NoCall == [op |-> "none"]

\* ------------------------------------------------------------------ rows
PlaceholderImage == <<"p">>

\* Texts a draft field is given in the model.
Titles == {<<"A", "SIGMA">>, <<"a">>}
Categories == {<<"a">>}

\* Characters of content.substring(0, 150)
ExcerptLen == 150

Ellipsis == <<".", ".", ".">>

\* the whole content with the ellipsis
ExcerptNoCut(content) == content \o Ellipsis

\* excerpt: newArticle.content.substring(0, 150) + "..."
Excerpt(content) == Substring(content, 0, ExcerptLen) \o Ellipsis

\* ------------------------------------------------------------------ store
\* .order('created_at', { ascending: false }) over a set of rows
RECURSIVE OrderDesc(_)
OrderDesc(S) ==
  IF S = {} THEN <<>>
  ELSE LET newest == CHOOSE r \in S : \A o \in S : o.created_at <= r.created_at
       IN  <<newest>> \o OrderDesc(S \ {newest})

\* the rows, oldest first
RECURSIVE OrderAsc(_)
OrderAsc(S) ==
  IF S = {} THEN <<>>
  ELSE LET oldest == CHOOSE r \in S : \A o \in S : r.created_at <= o.created_at
       IN  <<oldest>> \o OrderAsc(S \ {oldest})

ListOldestFirst(rows) == OrderAsc(rows)

\* from('articles').select('*').order(created_at desc)
ListAllRows(rows) == OrderDesc(rows)

\* the public query without its published filter
ListPublishedUnfiltered(rows) == OrderDesc(rows)

\* from('articles').select('*').eq('published', true).order(created_at desc)
ListPublished(rows) == OrderDesc({r \in rows : r.published})

\* a lookup by id alone
GetByIdAnyRow(rows, id) ==
  LET hit == {r \in rows : r.id = id}
  IN  IF Cardinality(hit) = 1 THEN CHOOSE r \in hit : TRUE ELSE NoArticle

\* from('articles').select('*').eq('id', id).eq('published', true).single():
\* the one matching row, or an error when no row matches
GetPublishedById(rows, id) ==
  LET hit == {r \in rows : r.id = id /\ r.published}
  IN  IF Cardinality(hit) = 1 THEN CHOOSE r \in hit : TRUE ELSE NoArticle

\* the row the store creates for an insert payload: it assigns id, created_at
NewRow(payload, id) ==
  [id |-> id, created_at |-> id,
   title |-> payload.title, content |-> payload.content,
   category |-> payload.category, image |-> payload.image,
   excerpt |-> payload.excerpt, author_id |-> payload.author_id,
   published |-> payload.published]

\* from('articles').delete().eq('id', id)
DeleteRows(rows, id) == {r \in rows : r.id # id}

\* ------------------------------------------------------------------ Index
\* The predicate of articles.filter(...) in the [searchTerm, articles] effect
Matches(a, q) ==
  \/ Includes(ToLowerCase(a.title), ToLowerCase(q))
  \/ Includes(ToLowerCase(a.content), ToLowerCase(q))
  \/ Includes(ToLowerCase(a.category), ToLowerCase(q))

\* Array.prototype.filter keeps the matching elements in their order
FilterArticles(list, q) == SelectSeq(list, LAMBDA a : Matches(a, q))

\* all texts of at most n characters
RECURSIVE TextsUpTo(_)
TextsUpTo(n) ==
  IF n = 0 THEN {<<>>}
  ELSE LET shorter == TextsUpTo(n - 1)
       IN  shorter \cup {Append(t, c) : t \in shorter, c \in Letters \cup {Blank}}

Queries == TextsUpTo(MaxQueryLen)

\* useState initial values of Index, and the mount effects: fetchArticles()
\* is called, and the filter effect runs on the empty list.
IndexMounted ==
  /\ idxArticles = <<>>
  /\ searchTerm = <<>>
  /\ filteredArticles = <<>>
  /\ idxFetch = "pending"
  /\ filterEffect = FALSE
  /\ idxNotice = {}

IndexUnmounted ==
  /\ idxArticles = <<>>
  /\ searchTerm = <<>>
  /\ filteredArticles = <<>>
  /\ idxFetch = "done"
  /\ filterEffect = FALSE
  /\ idxNotice = {}

MountIndex ==
  /\ idxArticles' = <<>>
  /\ searchTerm' = <<>>
  /\ filteredArticles' = <<>>
  /\ idxFetch' = "pending"
  /\ filterEffect' = FALSE
  /\ idxNotice' = {}

UnmountIndex ==
  /\ idxArticles' = <<>>
  /\ searchTerm' = <<>>
  /\ filteredArticles' = <<>>
  /\ idxFetch' = "done"
  /\ filterEffect' = FALSE
  /\ idxNotice' = {}

\* the data is stored and displayed, and no filter effect follows
IndexFetchOkNoEffect ==
  /\ page = "index"
  /\ idxFetch = "pending"
  /\ idxFetch' = "done"
  /\ idxArticles' = ListPublished(store)
  /\ filteredArticles' = ListPublished(store)
  /\ UNCHANGED <<searchTerm, idxNotice, filterEffect>>
  /\ UNCHANGED <<storeVars, user, page, detailVars, adminVars, localVars, uploadVars>>

\* fetchArticles resolves with data: setArticles(data); setFilteredArticles(data)
IndexFetchOk ==
  /\ page = "index"
  /\ idxFetch = "pending"
  /\ idxFetch' = "done"
  /\ idxArticles' = ListPublished(store)
  /\ filteredArticles' = ListPublished(store)
  /\ filterEffect' = TRUE
  /\ UNCHANGED <<searchTerm, idxNotice>>
  /\ UNCHANGED <<storeVars, user, page, detailVars, adminVars, localVars, uploadVars>>

\* fetchArticles resolves with an error value: a toast, nothing else
IndexFetchError ==
  /\ page = "index"
  /\ idxFetch = "pending"
  /\ idxFetch' = "done"
  /\ idxNotice' = idxNotice \cup {"Failed to load articles"}
  /\ UNCHANGED <<idxArticles, searchTerm, filteredArticles, filterEffect>>
  /\ UNCHANGED <<storeVars, user, page, detailVars, adminVars, localVars, uploadVars>>

\* the awaited call throws: the catch block logs to the console only
IndexFetchThrow ==
  /\ page = "index"
  /\ idxFetch = "pending"
  /\ idxFetch' = "done"
  /\ UNCHANGED <<idxArticles, searchTerm, filteredArticles, filterEffect, idxNotice>>
  /\ UNCHANGED <<storeVars, user, page, detailVars, adminVars, localVars, uploadVars>>

\* onChange of the search input: setSearchTerm(e.target.value)
SetSearchTerm(q) ==
  /\ page = "index"
  /\ q # searchTerm
  /\ searchTerm' = q
  /\ filterEffect' = TRUE
  /\ UNCHANGED <<idxArticles, filteredArticles, idxFetch, idxNotice>>
  /\ UNCHANGED <<storeVars, user, page, detailVars, adminVars, localVars, uploadVars>>

\* the effect on [searchTerm, articles]
RunFilterEffect ==
  /\ page = "index"
  /\ filterEffect
  /\ filteredArticles' = FilterArticles(idxArticles, searchTerm)
  /\ filterEffect' = FALSE
  /\ UNCHANGED <<idxArticles, searchTerm, idxFetch, idxNotice>>
  /\ UNCHANGED <<storeVars, user, page, detailVars, adminVars, localVars, uploadVars>>

\* ------------------------------------------------------------------ Article
RouteIds == 1..(MaxId + 1)

DetailMounted(id) ==
  /\ routeId = id
  /\ article = NoArticle
  /\ loading = TRUE
  /\ detailReqs = {id}

DetailUnmounted ==
  /\ routeId = 0
  /\ article = NoArticle
  /\ loading = TRUE
  /\ detailReqs = {}

MountDetail(id) ==
  /\ routeId' = id
  /\ article' = NoArticle
  /\ loading' = TRUE
  /\ detailReqs' = {id}

UnmountDetail ==
  /\ routeId' = 0
  /\ article' = NoArticle
  /\ loading' = TRUE
  /\ detailReqs' = {}

\* the route parameter changes while Article stays mounted: the [id] effect
\* calls fetchArticle() again; article and loading keep their values
DetailChangeId(id) ==
  /\ page = "detail"
  /\ id # routeId
  /\ Cardinality(detailReqs) <= MaxPending
  /\ routeId' = id
  /\ detailReqs' = detailReqs \cup {id}
  /\ UNCHANGED <<article, loading>>
  /\ UNCHANGED <<storeVars, user, page, idxVars, adminVars, localVars, uploadVars>>

\* fetchArticle resolves: .single() gives the row, or an error when no
\* published row has the id; finally setLoading(false)
DetailFetchOk(id) ==
  /\ page = "detail"
  /\ id \in detailReqs
  /\ detailReqs' = detailReqs \ {id}
  /\ article' = GetPublishedById(store, id)
  /\ loading' = FALSE
  /\ UNCHANGED routeId
  /\ UNCHANGED <<storeVars, user, page, idxVars, adminVars, localVars, uploadVars>>

\* the query fails (error value or exception): setArticle(null)
DetailFetchFail(id) ==
  /\ page = "detail"
  /\ id \in detailReqs
  /\ detailReqs' = detailReqs \ {id}
  /\ article' = NoArticle
  /\ loading' = FALSE
  /\ UNCHANGED routeId
  /\ UNCHANGED <<storeVars, user, page, idxVars, adminVars, localVars, uploadVars>>

\* ------------------------------------------------------------------ routing
\* <Link to="/"> of Article
GoToIndex ==
  /\ page = "detail"
  /\ page' = "index"
  /\ MountIndex
  /\ UnmountDetail
  /\ UNCHANGED <<storeVars, user, adminVars, localVars, uploadVars>>

\* <Link to={`/article/${article.id}`}> of a displayed card
OpenArticle(i) ==
  /\ page = "index"
  /\ i \in 1..Len(filteredArticles)
  /\ page' = "detail"
  /\ MountDetail(filteredArticles[i].id)
  /\ UnmountIndex
  /\ UNCHANGED <<storeVars, user, adminVars, localVars, uploadVars>>

\* ------------------------------------------------------------------ rows of other sessions
\* The table is shared: other sessions and the project console insert rows
\* (published or not) and delete rows.
RemotePayloads ==
  [title : Titles, content : {<<"a">>}, category : Categories,
   image : {PlaceholderImage}, excerpt : {Excerpt(<<"a">>)},
   author_id : Actors, published : BOOLEAN]

RemoteInsert(payload) ==
  /\ nextId <= MaxId
  /\ store' = store \cup {NewRow(payload, nextId)}
  /\ nextId' = nextId + 1
  /\ UNCHANGED <<lastCall, user, page, idxVars, detailVars, adminVars, localVars, uploadVars>>

RemoteDelete(id) ==
  /\ \E r \in store : r.id = id
  /\ store' = DeleteRows(store, id)
  /\ UNCHANGED <<nextId, lastCall, user, page, idxVars, detailVars, adminVars, localVars, uploadVars>>

\* ------------------------------------------------------------------ public views
InitStore ==
  /\ store = {}
  /\ nextId = 1
  /\ lastCall = NoCall

\* useState initial values of AdminDashboard
EmptyDraft ==
  [title |-> <<>>, content |-> <<>>, category |-> <<>>, image |-> PlaceholderImage]

AdminUnmounted ==
  /\ articles = <<>>
  /\ isAddingArticle = FALSE
  /\ newArticle = EmptyDraft
  /\ toast = "none"
  /\ insertReqs = <<>>
  /\ deleteReqs = <<>>
  /\ listReqs = 0
  /\ listResps = <<>>

\* mockArticles of Index: ids 1 and 2, today's and yesterday's date, texts
\* of fewer than 150 characters and excerpts written by hand
MockArticles(time) ==
  <<[id |-> 1, title |-> <<"A">>, content |-> <<"a", "b">>, category |-> <<"a">>,
     image |-> PlaceholderImage, date |-> time, excerpt |-> <<"c", ".", ".", ".">>],
    [id |-> 2, title |-> <<"a">>, content |-> <<"b">>, category |-> <<"a">>,
     image |-> PlaceholderImage, date |-> time - 1, excerpt |-> <<"a", ".", ".", ".">>]>>

\* Date.now() lies above the ids of the mock articles
FirstTick == Len(MockArticles(0)) + 1
LastTick == FirstTick + MaxClock - 1
LocalIds == 1..LastTick

\* getItem("newsArticles") is null, or the list that was saved
NoItem == [present |-> FALSE, list |-> <<>>]
Item(list) == [present |-> TRUE, list |-> list]

\* no upload has been started
NoUpload == [phase |-> "idle"]

UploadIdle ==
  /\ isUploadingImage = FALSE
  /\ cursor = 0
  /\ upload = NoUpload
  /\ bucket = FALSE
  /\ objects = 0

\* the localStorage variant is not running
LocalUnused ==
  /\ newsArticles = NoItem
  /\ adminLoggedIn = FALSE
  /\ now = FirstTick
  /\ localPage = "login"
  /\ localArticles = <<>>
  /\ localDraft = EmptyDraft
  /\ localAdding = FALSE
  /\ localToast = "none"
  /\ deletedIds = {}
  /\ localRouteId = 0
  /\ localArticle = NoArticle

InitPublic ==
  /\ InitStore
  /\ user = NoUser
  /\ AdminUnmounted
  /\ LocalUnused
  /\ UploadIdle
  /\ \/ page = "index" /\ IndexMounted /\ DetailUnmounted
     \/ page = "detail" /\ IndexUnmounted /\ \E id \in RouteIds : DetailMounted(id)

NextPublic ==
  \/ IndexFetchOk
  \/ IndexFetchError
  \/ IndexFetchThrow
  \/ \E q \in Queries : SetSearchTerm(q)
  \/ RunFilterEffect
  \/ \E id \in RouteIds : DetailChangeId(id)
  \/ \E id \in RouteIds : DetailFetchOk(id)
  \/ \E id \in RouteIds : DetailFetchFail(id)
  \/ GoToIndex
  \/ \E i \in 1..MaxId : OpenArticle(i)
  \/ \E payload \in RemotePayloads : RemoteInsert(payload)
  \/ \E id \in 1..MaxId : RemoteDelete(id)

SpecPublic == InitPublic /\ [][NextPublic]_vars

\* ------------------------------------------------------------------ claims: public views
\* Simple case folding of one character: the letters that differ only in
\* case (the three sigmas included) fold to one character.
Fold(c) ==
  CASE c \in {"A", "a"} -> "a"
    [] c \in {"SIGMA", "sigma", "fsigma"} -> "sigma"
    [] OTHER -> c

\* s contains q, case-insensitively
ContainsIgnoreCase(s, q) ==
  \E i \in 0..(Len(s) - Len(q)) : \A j \in 1..Len(q) : Fold(s[i + j]) = Fold(q[j])

MatchesIgnoreCase(a, q) ==
  \/ ContainsIgnoreCase(a.title, q)
  \/ ContainsIgnoreCase(a.content, q)
  \/ ContainsIgnoreCase(a.category, q)

FilterSettled == page = "index" /\ ~filterEffect

\* C1: once the filter effect has run, the displayed list is the
\* subsequence of the fetched list holding exactly the articles whose
\* title, content or category contains the search term case-insensitively.
C1_FilterIsCaseInsensitiveContainment ==
  FilterSettled =>
    filteredArticles = SelectSeq(idxArticles, LAMBDA a : MatchesIgnoreCase(a, searchTerm))

\* C2: with the empty search term the displayed list is the fetched list
\* itself, every article in unchanged order.
C2_EmptyQueryIsIdentity ==
  (FilterSettled /\ searchTerm = <<>>) => filteredArticles = idxArticles

C2_Witness ==
  /\ FilterSettled
  /\ searchTerm = <<>>
  /\ idxFetch = "done"
  /\ Len(idxArticles) >= 2
  /\ filteredArticles = idxArticles

NotFoundState == ~loading /\ article = NoArticle

HoldsOnlyPublished ==
  /\ \A i \in 1..Len(idxArticles) : idxArticles[i].published
  /\ \A i \in 1..Len(filteredArticles) : filteredArticles[i].published
  /\ article # NoArticle => article.published

UnpublishedFetchIsNotFound ==
  \A id \in RouteIds :
    (DetailFetchOk(id) /\ \E r \in store : r.id = id /\ ~r.published) => NotFoundState'

\* C6: the listing and the detail view never hold a row with published =
\* false, whatever the store holds, and a by-id fetch of an existing
\* unpublished row ends in the Not Found state.
C6_PublicViewsShowOnlyPublished ==
  []HoldsOnlyPublished /\ [][UnpublishedFetchIsNotFound]_vars

C6_Witness ==
  /\ page = "detail"
  /\ \E r \in store : r.id = routeId /\ ~r.published
  /\ \E r \in store : r.published
  /\ detailReqs = {}
  /\ NotFoundState

\* C20: when the public listing fetch fails, by an error value or by an
\* exception, the displayed lists stay as they were and a notice is shown.
C20_FetchFailureShowsNotice ==
  [][(IndexFetchError \/ IndexFetchThrow) =>
       /\ UNCHANGED <<idxArticles, filteredArticles>>
       /\ "Failed to load articles" \in idxNotice']_vars

\* ------------------------------------------------------------------ AdminDashboard (Supabase)
\* Values typed into the form fields in the model: empty, blank, a letter;
\* contents just under, at and just over the excerpt cut.
DraftTitles == {<<>>, <<Blank>>, <<"a">>}
DraftContents == {<<>>} \cup {Rep("a", n) : n \in (ExcerptLen - 1)..(ExcerptLen + 1)}
DraftCategories == {<<>>, <<"a">>}
DraftImages == {<<>>, PlaceholderImage}

ToastFillRequired == "Please fill in all required fields."
ToastMustLogin == "You must be logged in to create articles."
ToastCreateFailed == "Failed to create article. Please try again."
ToastAdded == "The article has been published successfully."
ToastDeleteFailed == "Failed to delete article. Please try again."
ToastDeleted == "The article has been removed successfully."
ToastLoadFailed == "Failed to load articles"
ToastLoggedOut == "You have been logged out successfully."

\* !newArticle.title || !newArticle.content || !newArticle.category
MissingRequired(d) == d.title = <<>> \/ d.content = <<>> \/ d.category = <<>>

\* a payload that names a fixed author
InsertPayloadFixedAuthor(d, actor) ==
  [title |-> d.title, content |-> d.content, category |-> d.category,
   image |-> d.image, excerpt |-> Excerpt(d.content),
   author_id |-> "u1", published |-> TRUE]

\* the object passed to insert([...])
InsertPayload(d, actor) ==
  [title |-> d.title, content |-> d.content, category |-> d.category,
   image |-> d.image, excerpt |-> Excerpt(d.content),
   author_id |-> actor, published |-> TRUE]

RemoveAt(seq, i) == SubSeq(seq, 1, i - 1) \o SubSeq(seq, i + 1, Len(seq))

ListInFlight == listReqs + Len(listResps)

\* onChange of the form fields: setNewArticle({...newArticle, field: value})
SetTitle(t) ==
  /\ page = "admin" /\ isAddingArticle
  /\ t # newArticle.title
  /\ newArticle' = [newArticle EXCEPT !.title = t]
  /\ UNCHANGED <<articles, isAddingArticle, toast, insertReqs, deleteReqs, listReqs, listResps>>
  /\ UNCHANGED <<storeVars, user, page, idxVars, detailVars, localVars, uploadVars>>

SetContent(c) ==
  /\ page = "admin" /\ isAddingArticle
  /\ c # newArticle.content
  /\ newArticle' = [newArticle EXCEPT !.content = c]
  /\ UNCHANGED <<articles, isAddingArticle, toast, insertReqs, deleteReqs, listReqs, listResps>>
  /\ UNCHANGED <<storeVars, user, page, idxVars, detailVars, localVars, uploadVars>>

SetCategory(c) ==
  /\ page = "admin" /\ isAddingArticle
  /\ c # newArticle.category
  /\ newArticle' = [newArticle EXCEPT !.category = c]
  /\ UNCHANGED <<articles, isAddingArticle, toast, insertReqs, deleteReqs, listReqs, listResps>>
  /\ UNCHANGED <<storeVars, user, page, idxVars, detailVars, localVars, uploadVars>>

SetImage(img) ==
  /\ page = "admin" /\ isAddingArticle
  /\ img # newArticle.image
  /\ newArticle' = [newArticle EXCEPT !.image = img]
  /\ UNCHANGED <<articles, isAddingArticle, toast, insertReqs, deleteReqs, listReqs, listResps>>
  /\ UNCHANGED <<storeVars, user, page, idxVars, detailVars, localVars, uploadVars>>

\* the Add Article / Cancel button: setIsAddingArticle(!isAddingArticle)
ToggleAdding ==
  /\ page = "admin"
  /\ isAddingArticle' = ~isAddingArticle
  /\ UNCHANGED <<articles, newArticle, toast, insertReqs, deleteReqs, listReqs, listResps>>
  /\ UNCHANGED <<storeVars, user, page, idxVars, detailVars, localVars, uploadVars>>

\* handleAddArticle up to its await: the two early returns, else the insert
\* is sent (one insert is in flight at a time)
HandleAddArticle ==
  /\ page = "admin" /\ isAddingArticle
  /\ IF MissingRequired(newArticle)
       THEN /\ toast' = ToastFillRequired
            /\ UNCHANGED <<insertReqs, lastCall>>
     ELSE IF user = NoUser
       THEN /\ toast' = ToastMustLogin
            /\ UNCHANGED <<insertReqs, lastCall>>
     ELSE /\ insertReqs = <<>>
          /\ insertReqs' = Append(insertReqs, InsertPayload(newArticle, user))
          /\ lastCall' = [op |-> "insert", actor |-> user,
                          payload |-> InsertPayload(newArticle, user)]
          /\ UNCHANGED toast
  /\ UNCHANGED <<articles, isAddingArticle, newArticle, deleteReqs, listReqs, listResps>>
  /\ UNCHANGED <<store, nextId, user, page, idxVars, detailVars, localVars, uploadVars>>

\* the insert succeeds: the store adds the row; toast, the draft is reset,
\* the form closes, fetchArticles() is called
\* (at most cap list refreshes of the dashboard are in flight)
InsertSucceeds(i, cap) ==
  /\ i \in 1..Len(insertReqs)
  /\ nextId <= MaxId
  /\ store' = store \cup {NewRow(insertReqs[i], nextId)}
  /\ nextId' = nextId + 1
  /\ insertReqs' = RemoveAt(insertReqs, i)
  /\ toast' = ToastAdded
  /\ IF page = "admin"
       THEN /\ ListInFlight < cap
            /\ newArticle' = EmptyDraft
            /\ isAddingArticle' = FALSE
            /\ listReqs' = listReqs + 1
       ELSE UNCHANGED <<newArticle, isAddingArticle, listReqs>>
  /\ UNCHANGED <<articles, deleteReqs, listResps>>
  /\ UNCHANGED <<lastCall, user, page, idxVars, detailVars, localVars, uploadVars>>

InsertOk(i) == InsertSucceeds(i, MaxPending)

\* the insert fails and the form is reset as after a success
InsertErrorResetsDraft(i) ==
  /\ i \in 1..Len(insertReqs)
  /\ insertReqs' = RemoveAt(insertReqs, i)
  /\ toast' = ToastCreateFailed
  /\ newArticle' = EmptyDraft
  /\ isAddingArticle' = FALSE
  /\ UNCHANGED <<articles, deleteReqs, listReqs, listResps>>
  /\ UNCHANGED <<storeVars, user, page, idxVars, detailVars, localVars, uploadVars>>

\* the insert fails, with an error value or an exception: the same toast
InsertError(i) ==
  /\ i \in 1..Len(insertReqs)
  /\ insertReqs' = RemoveAt(insertReqs, i)
  /\ toast' = ToastCreateFailed
  /\ UNCHANGED <<articles, isAddingArticle, newArticle, deleteReqs, listReqs, listResps>>
  /\ UNCHANGED <<storeVars, user, page, idxVars, detailVars, localVars, uploadVars>>

\* handleDeleteArticle(article.id) of a listed article, up to its await:
\* the delete is sent (one delete is in flight at a time)
HandleDeleteArticle(id) ==
  /\ page = "admin"
  /\ \E i \in 1..Len(articles) : articles[i].id = id
  /\ deleteReqs = <<>>
  /\ deleteReqs' = Append(deleteReqs, id)
  /\ lastCall' = [op |-> "delete", actor |-> user, id |-> id]
  /\ UNCHANGED <<articles, isAddingArticle, newArticle, toast, insertReqs, listReqs, listResps>>
  /\ UNCHANGED <<store, nextId, user, page, idxVars, detailVars, localVars, uploadVars>>

\* the delete succeeds: toast, fetchArticles() is called
\* (at most cap list refreshes of the dashboard are in flight)
DeleteSucceeds(i, cap) ==
  /\ i \in 1..Len(deleteReqs)
  /\ store' = DeleteRows(store, deleteReqs[i])
  /\ deleteReqs' = RemoveAt(deleteReqs, i)
  /\ toast' = ToastDeleted
  /\ IF page = "admin"
       THEN /\ ListInFlight < cap
            /\ listReqs' = listReqs + 1
       ELSE UNCHANGED listReqs
  /\ UNCHANGED <<articles, isAddingArticle, newArticle, insertReqs, listResps>>
  /\ UNCHANGED <<nextId, lastCall, user, page, idxVars, detailVars, localVars, uploadVars>>

DeleteOk(i) == DeleteSucceeds(i, MaxPending)

DeleteError(i) ==
  /\ i \in 1..Len(deleteReqs)
  /\ deleteReqs' = RemoveAt(deleteReqs, i)
  /\ toast' = ToastDeleteFailed
  /\ UNCHANGED <<articles, isAddingArticle, newArticle, insertReqs, listReqs, listResps>>
  /\ UNCHANGED <<storeVars, user, page, idxVars, detailVars, localVars, uploadVars>>

\* the store answers a fetchArticles() query with the rows it holds
ListServe ==
  /\ listReqs > 0
  /\ listReqs' = listReqs - 1
  /\ listResps' = Append(listResps, ListAllRows(store))
  /\ UNCHANGED <<articles, isAddingArticle, newArticle, toast, insertReqs, deleteReqs>>
  /\ UNCHANGED <<storeVars, user, page, idxVars, detailVars, localVars, uploadVars>>

\* fetchArticles() fails, with an error value or an exception: a toast
ListError ==
  /\ listReqs > 0
  /\ listReqs' = listReqs - 1
  /\ toast' = ToastLoadFailed
  /\ UNCHANGED <<articles, isAddingArticle, newArticle, insertReqs, deleteReqs, listResps>>
  /\ UNCHANGED <<storeVars, user, page, idxVars, detailVars, localVars, uploadVars>>

\* fetchArticles() resumes with data: setArticles(data || [])
ListDeliver(i) ==
  /\ i \in 1..Len(listResps)
  /\ listResps' = RemoveAt(listResps, i)
  /\ articles' = IF page = "admin" THEN listResps[i] ELSE articles
  /\ UNCHANGED <<isAddingArticle, newArticle, toast, insertReqs, deleteReqs, listReqs>>
  /\ UNCHANGED <<storeVars, user, page, idxVars, detailVars, localVars, uploadVars>>

\* the session ends (handleLogout's signOut(), or a sign-out elsewhere)
SignOut ==
  /\ user # NoUser
  /\ user' = NoUser
  /\ UNCHANGED <<storeVars, page, idxVars, detailVars, adminVars, localVars, uploadVars>>

\* a session starts while the dashboard is mounted: the [user] effect
\* calls fetchArticles()
SignIn(actor) ==
  /\ user = NoUser
  /\ page = "admin"
  /\ ListInFlight < MaxPending
  /\ user' = actor
  /\ listReqs' = listReqs + 1
  /\ UNCHANGED <<articles, isAddingArticle, newArticle, toast, insertReqs, deleteReqs, listResps>>
  /\ UNCHANGED <<storeVars, page, idxVars, detailVars, localVars, uploadVars>>

\* the [user] effect with no user: navigate("/admin") takes effect and the
\* dashboard is unmounted; requests in flight still reach the store
Redirect ==
  /\ page = "admin"
  /\ user = NoUser
  /\ page' = "login"
  /\ articles' = <<>>
  /\ isAddingArticle' = FALSE
  /\ newArticle' = EmptyDraft
  /\ listReqs' = 0
  /\ listResps' = <<>>
  /\ UNCHANGED <<toast, insertReqs, deleteReqs>>
  /\ UNCHANGED <<storeVars, user, idxVars, detailVars, localVars, uploadVars>>

Init ==
  /\ InitStore
  /\ page = "admin"
  /\ user \in Actors \cup {NoUser}
  /\ IndexUnmounted
  /\ DetailUnmounted
  /\ articles = <<>>
  /\ isAddingArticle = FALSE
  /\ newArticle = EmptyDraft
  /\ toast = "none"
  /\ insertReqs = <<>>
  /\ deleteReqs = <<>>
  /\ listReqs = (IF user = NoUser THEN 0 ELSE 1)
  /\ listResps = <<>>
  /\ LocalUnused
  /\ UploadIdle

\* The dashboard's life: the form is filled with one text per field.
Next ==
  \/ \E t \in {<<"a">>} : SetTitle(t)
  \/ \E c \in {<<"a">>} : SetContent(c)
  \/ \E c \in {<<"a">>} : SetCategory(c)
  \/ ToggleAdding
  \/ HandleAddArticle
  \/ \E i \in DOMAIN insertReqs : InsertOk(i)
  \/ \E i \in DOMAIN insertReqs : InsertError(i)
  \/ \E id \in 1..MaxId : HandleDeleteArticle(id)
  \/ \E i \in DOMAIN deleteReqs : DeleteOk(i)
  \/ \E i \in DOMAIN deleteReqs : DeleteError(i)
  \/ ListServe
  \/ ListError
  \/ \E i \in DOMAIN listResps : ListDeliver(i)
  \/ SignOut
  \/ \E actor \in Actors : SignIn(actor)
  \/ Redirect

Spec == Init /\ [][Next]_vars

\* ------------------------------------------------------------------ one submit of any draft
\* handleAddArticle applied to a draft: the form is open and holds any
\* combination of the field values; the session has an actor or none.
Drafts ==
  [title : DraftTitles, content : DraftContents,
   category : DraftCategories, image : DraftImages]

InitCreate ==
  /\ InitStore
  /\ page = "admin"
  /\ user \in Actors \cup OtherActors \cup {NoUser}
  /\ IndexUnmounted
  /\ DetailUnmounted
  /\ articles = <<>>
  /\ isAddingArticle = TRUE
  /\ newArticle \in Drafts
  /\ toast = "none"
  /\ insertReqs = <<>>
  /\ deleteReqs = <<>>
  /\ listReqs = 0
  /\ listResps = <<>>
  /\ LocalUnused
  /\ UploadIdle

NextCreate ==
  \/ HandleAddArticle
  \/ \E i \in DOMAIN insertReqs : InsertOk(i)
  \/ \E i \in DOMAIN insertReqs : InsertError(i)
  \/ ListServe
  \/ ListError
  \/ \E i \in DOMAIN listResps : ListDeliver(i)

SpecCreate == InitCreate /\ [][NextCreate]_vars

\* ------------------------------------------------------------------ claims: create and delete
\* empty, or nothing but white space
IsBlankText(t) == \A i \in 1..Len(t) : t[i] = Blank

HasBlankField(d) ==
  IsBlankText(d.title) \/ IsBlankText(d.content) \/ IsBlankText(d.category)

\* C3: a create whose title, content or category is empty or only white
\* space is rejected, and no insert of such a draft is sent to the store.
C3_BlankDraftNeverInserted ==
  lastCall.op = "insert" => ~HasBlankField(lastCall.payload)

\* C5: a delete is sent to the store only for an authenticated actor.
C5_DeleteRequiresActor ==
  lastCall.op = "delete" => lastCall.actor # NoUser

\* what the claim gives for the excerpt of a content
ClaimedExcerpt(content) ==
  IF Len(content) > ExcerptLen
    THEN SubSeq(content, 1, ExcerptLen) \o Ellipsis
    ELSE content \o Ellipsis

\* C7: the row created for a draft has the first 150 characters of the
\* content plus "..." as excerpt when the content is longer than 150
\* characters, and the whole content plus "..." otherwise.
C7_ExcerptOfCreatedRow ==
  /\ \A r \in store : r.excerpt = ClaimedExcerpt(r.content)
  /\ lastCall.op = "insert" =>
       lastCall.payload.excerpt = ClaimedExcerpt(lastCall.payload.content)

C7_Witness ==
  /\ \E r \in store : Len(r.content) = ExcerptLen /\ Len(r.excerpt) = ExcerptLen + 3
  /\ toast = ToastAdded

C7_WitnessLong ==
  \E r \in store : Len(r.content) > ExcerptLen /\ Len(r.excerpt) = ExcerptLen + 3

\* C18: every row a create has inserted is published and has the id of the
\* actor who issued the create as author_id.
C18_CreatedRowPublishedByActor ==
  /\ lastCall.op = "insert" =>
       /\ lastCall.payload.published
       /\ lastCall.payload.author_id = user
  /\ \A r \in store : r.published /\ r.author_id = user /\ user # NoUser

\* the second actor has created an article
C18_Witness ==
  /\ user \in OtherActors
  /\ toast = ToastAdded
  /\ \E r \in store : r.author_id = user /\ r.published

\* C19: a create from a draft whose image field is empty sends, and so
\* stores, the placeholder reference as image.
C19_EmptyImageBecomesPlaceholder ==
  [][(HandleAddArticle /\ newArticle.image = <<>> /\ lastCall' # lastCall) =>
       lastCall'.payload.image = PlaceholderImage]_vars

\* ------------------------------------------------------------------ AdminDashboard: image upload
UploadContents == {<<>>, <<"a">>, <<"a", "b">>}
Urls == {<<"u">>, <<"u", "v">>}
TypedChars == {"c"}

\* 5 * 1024 * 1024
MaxFileSize == 5242880
\* declared types: "image/png", "image", "text/plain", ""
FileTypes ==
  {<<"i", "m", "a", "g", "e", "/", "p", "n", "g">>,
   <<"i", "m", "a", "g", "e">>,
   <<"t", "e", "x", "t", "/", "p", "l", "a", "i", "n">>,
   <<>>}
FileSizes == {1024, MaxFileSize, MaxFileSize + 1}

\* String.prototype.startsWith(prefix)
StartsWith(s, prefix) ==
  /\ Len(s) >= Len(prefix)
  /\ SubSeq(s, 1, Len(prefix)) = prefix

\* file.type.startsWith('image/')
IsImageType(type) == StartsWith(type, <<"i", "m", "a", "g", "e", "/">>)

\* a test that also rejects a file of exactly the limit
TooLargeAtLimit(size) == size >= MaxFileSize

\* file.size > 5 * 1024 * 1024
TooLarge(size) == size > MaxFileSize

ToastSelectImage == "Please select an image file"
ToastImageTooLarge == "Image size must be less than 5MB"
ToastUploaded == "Image uploaded and inserted into content"
ToastUploadFailed == "Failed to upload image"

\* `\n\n![Image](${imageUrl})\n\n`
ImageMarkdown(imageUrl) ==
  <<"\n", "\n", "!", "[", "I", "m", "a", "g", "e", "]", "(">> \o imageUrl \o <<")", "\n", "\n">>

\* the markup appended to the content
InsertImageAtEnd(content, cursorPosition, imageUrl) == content \o ImageMarkdown(imageUrl)

\* textBefore + imageMarkdown + textAfter
InsertImage(content, cursorPosition, imageUrl) ==
  LET textBefore == Substring(content, 0, cursorPosition)
      textAfter == SubstringFrom(content, cursorPosition)
  IN  textBefore \o ImageMarkdown(imageUrl) \o textAfter

\* the position handed to setSelectionRange
CursorAfterImage(cursorPosition, imageUrl) == cursorPosition + Len(ImageMarkdown(imageUrl))

\* the catch block alone: the flag is reset on the success path only
UploadFailsKeepsFlag ==
  /\ toast' = ToastUploadFailed
  /\ UNCHANGED isUploadingImage
  /\ upload' = NoUpload

\* the catch and finally blocks of handleImageUpload
UploadFails ==
  /\ toast' = ToastUploadFailed
  /\ isUploadingImage' = FALSE
  /\ upload' = NoUpload

\* the user types a character at the cursor: the textarea's onChange
TypeInContent(ch) ==
  /\ page = "admin"
  /\ isAddingArticle
  /\ Len(newArticle.content) < MaxTyped
  /\ newArticle' = [newArticle EXCEPT !.content =
                      SubSeq(@, 1, cursor) \o <<ch>> \o SubSeq(@, cursor + 1, Len(@))]
  /\ cursor' = cursor + 1
  /\ UNCHANGED <<isUploadingImage, upload, bucket, objects>>
  /\ UNCHANGED <<articles, isAddingArticle, toast, insertReqs, deleteReqs, listReqs, listResps>>
  /\ UNCHANGED <<storeVars, user, page, idxVars, detailVars, localVars>>

\* the user clicks into the content, at offset c
MoveCursor(c) ==
  /\ page = "admin"
  /\ isAddingArticle
  /\ c <= Len(newArticle.content)
  /\ c # cursor
  /\ cursor' = c
  /\ UNCHANGED <<isUploadingImage, upload, bucket, objects>>
  /\ UNCHANGED <<storeVars, user, page, idxVars, detailVars, adminVars, localVars>>

\* the Cancel button: setIsAddingArticle(!isAddingArticle) unmounts the form
CloseForm ==
  /\ page = "admin"
  /\ isAddingArticle
  /\ isAddingArticle' = FALSE
  /\ UNCHANGED uploadVars
  /\ UNCHANGED <<articles, newArticle, toast, insertReqs, deleteReqs, listReqs, listResps>>
  /\ UNCHANGED <<storeVars, user, page, idxVars, detailVars, localVars>>

\* handleImageUpload up to its first await: the two validations, then
\* setIsUploadingImage(true) and listBuckets() is called
SelectFile(type, size) ==
  /\ page = "admin"
  /\ isAddingArticle
  /\ ~isUploadingImage
  /\ upload = NoUpload
  /\ IF ~IsImageType(type)
       THEN /\ toast' = ToastSelectImage
            /\ UNCHANGED <<isUploadingImage, upload>>
       ELSE IF TooLarge(size)
         THEN /\ toast' = ToastImageTooLarge
              /\ UNCHANGED <<isUploadingImage, upload>>
         ELSE /\ objects < MaxUploads
              /\ isUploadingImage' = TRUE
              /\ upload' = [phase |-> "listBuckets", closure |-> newArticle,
                             file |-> [type |-> type, size |-> size]]
              /\ UNCHANGED toast
  /\ UNCHANGED <<cursor, bucket, objects>>
  /\ UNCHANGED <<articles, isAddingArticle, newArticle, insertReqs, deleteReqs, listReqs, listResps>>
  /\ UNCHANGED <<storeVars, user, page, idxVars, detailVars, localVars>>

\* ensureBucketExists: listBuckets() answers; without the 'images' bucket
\* createBucket is called, else upload(filePath, file)
ListBucketsOk ==
  /\ upload.phase = "listBuckets"
  /\ upload' = [upload EXCEPT !.phase = IF bucket THEN "upload" ELSE "createBucket"]
  /\ UNCHANGED <<isUploadingImage, cursor, bucket, objects>>
  /\ UNCHANGED <<storeVars, user, page, idxVars, detailVars, adminVars, localVars>>

\* listBuckets() answers an error or throws: ensureBucketExists returns false
ListBucketsError ==
  /\ upload.phase = "listBuckets"
  /\ UploadFails
  /\ UNCHANGED <<cursor, bucket, objects>>
  /\ UNCHANGED <<articles, isAddingArticle, newArticle, insertReqs, deleteReqs, listReqs, listResps>>
  /\ UNCHANGED <<storeVars, user, page, idxVars, detailVars, localVars>>

\* createBucket('images') succeeds; upload(filePath, file) is called
CreateBucketOk ==
  /\ upload.phase = "createBucket"
  /\ ~bucket
  /\ bucket' = TRUE
  /\ upload' = [upload EXCEPT !.phase = "upload"]
  /\ UNCHANGED <<isUploadingImage, cursor, objects>>
  /\ UNCHANGED <<storeVars, user, page, idxVars, detailVars, adminVars, localVars>>

\* createBucket('images') answers an error (the bucket exists by now, or the
\* call failed): ensureBucketExists returns false
CreateBucketError ==
  /\ upload.phase = "createBucket"
  /\ UploadFails
  /\ UNCHANGED <<cursor, bucket, objects>>
  /\ UNCHANGED <<articles, isAddingArticle, newArticle, insertReqs, deleteReqs, listReqs, listResps>>
  /\ UNCHANGED <<storeVars, user, page, idxVars, detailVars, localVars>>

\* another session's ensureBucketExists creates the bucket
RemoteCreateBucket ==
  /\ ~bucket
  /\ bucket' = TRUE
  /\ UNCHANGED <<isUploadingImage, cursor, upload, objects>>
  /\ UNCHANGED <<storeVars, user, page, idxVars, detailVars, adminVars, localVars>>

\* upload() succeeds and getPublicUrl gives imageUrl: with the textarea
\* mounted the markup is spliced into the closure's draft at the textarea's
\* selectionStart and the timer puts the cursor behind it; then the toast
\* and the finally block
UploadOk(imageUrl) ==
  /\ upload.phase = "upload"
  /\ objects' = objects + 1
  /\ IF isAddingArticle
       THEN LET cursorPosition == cursor
                newContent == InsertImage(upload.closure.content, cursorPosition, imageUrl)
            IN  /\ newArticle' = [upload.closure EXCEPT !.content = newContent]
                /\ cursor' = Clamp(CursorAfterImage(cursorPosition, imageUrl), Len(newContent))
       ELSE UNCHANGED <<newArticle, cursor>>
  /\ toast' = ToastUploaded
  /\ isUploadingImage' = FALSE
  /\ upload' = NoUpload
  /\ UNCHANGED bucket
  /\ UNCHANGED <<articles, isAddingArticle, insertReqs, deleteReqs, listReqs, listResps>>
  /\ UNCHANGED <<storeVars, user, page, idxVars, detailVars, localVars>>

\* a failure that leaves the markup spliced into the draft
UploadErrorAfterSplice ==
  /\ upload.phase = "upload"
  /\ UploadFails
  /\ newArticle' = [newArticle EXCEPT !.content =
                      InsertImage(@, cursor, <<"u">>)]
  /\ UNCHANGED <<cursor, bucket, objects>>
  /\ UNCHANGED <<articles, isAddingArticle, insertReqs, deleteReqs, listReqs, listResps>>
  /\ UNCHANGED <<storeVars, user, page, idxVars, detailVars, localVars>>

\* upload() answers an error or throws
UploadError ==
  /\ upload.phase = "upload"
  /\ UploadFails
  /\ UNCHANGED <<cursor, bucket, objects>>
  /\ UNCHANGED <<articles, isAddingArticle, newArticle, insertReqs, deleteReqs, listReqs, listResps>>
  /\ UNCHANGED <<storeVars, user, page, idxVars, detailVars, localVars>>

\* the form is open on a draft whose content was typed, the cursor in it
InitUpload ==
  /\ InitStore
  /\ user \in Actors
  /\ page = "admin"
  /\ IndexUnmounted
  /\ DetailUnmounted
  /\ articles = <<>>
  /\ isAddingArticle = TRUE
  /\ newArticle \in {[EmptyDraft EXCEPT !.content = c] : c \in UploadContents}
  /\ toast = "none"
  /\ insertReqs = <<>>
  /\ deleteReqs = <<>>
  /\ listReqs = 0
  /\ listResps = <<>>
  /\ LocalUnused
  /\ isUploadingImage = FALSE
  /\ cursor \in 0..Len(newArticle.content)
  /\ upload = NoUpload
  /\ bucket \in BOOLEAN
  /\ objects = 0

NextUpload ==
  \/ \E ch \in TypedChars : TypeInContent(ch)
  \/ \E c \in 0..MaxTyped : MoveCursor(c)
  \/ SetTitle(<<"a">>)
  \/ CloseForm
  \/ \E type \in FileTypes, size \in FileSizes : SelectFile(type, size)
  \/ ListBucketsOk
  \/ ListBucketsError
  \/ CreateBucketOk
  \/ CreateBucketError
  \/ RemoteCreateBucket
  \/ \E imageUrl \in Urls : UploadOk(imageUrl)
  \/ UploadError

SpecUpload == InitUpload /\ [][NextUpload]_vars

\* ------------------------------------------------------------------ claims: image upload
\* "\n\n![Image](u)\n\n"
ClaimedMarkup(u) ==
  <<"\n", "\n", "!", "[", "I", "m", "a", "g", "e", "]", "(">> \o u \o <<")", "\n", "\n">>

\* C10: when an upload succeeds with the cursor at an offset c within the
\* content the handler holds, the draft's content becomes
\* content[0:c] + "\n\n![Image](u)\n\n" + content[c:] and the cursor moves
\* to c plus the length of the inserted markup.
C10_ImageSplice ==
  [][\A u \in Urls :
       (UploadOk(u) /\ isAddingArticle /\ cursor <= Len(upload.closure.content)) =>
          LET content == upload.closure.content
              c == cursor
          IN  /\ newArticle'.content =
                   SubSeq(content, 1, c) \o ClaimedMarkup(u) \o SubSeq(content, c + 1, Len(content))
              /\ cursor' = c + Len(ClaimedMarkup(u))]_vars

\* an image was spliced between the two characters of a typed content and
\* the cursor stands behind the markup
C10_Witness ==
  /\ toast = ToastUploaded
  /\ \E u \in Urls :
       /\ newArticle.content = <<"a">> \o ClaimedMarkup(u) \o <<"b">>
       /\ cursor = 1 + Len(ClaimedMarkup(u))

\* C12: when listBuckets, createBucket or the upload call fails, the
\* upload-failed notice is shown and the failure changes nothing of the
\* draft or of the editor: no markup is spliced, the cursor stays.
C12_FailedUploadLeavesDraft ==
  [][(ListBucketsError \/ CreateBucketError \/ UploadError) =>
       /\ toast' = ToastUploadFailed
       /\ newArticle' = newArticle
       /\ cursor' = cursor
       /\ isAddingArticle' = isAddingArticle
       /\ objects' = objects]_vars

\* an upload of a file has failed on a draft with content
C12_Witness ==
  /\ toast = ToastUploadFailed
  /\ upload = NoUpload
  /\ ~isUploadingImage
  /\ objects = 0
  /\ newArticle.content = <<"a", "b">>

\* C13: when createBucket is rejected because another session has created
\* the bucket in the meantime, the handler goes on to the upload call.
C13_CreateRaceIsSuccess ==
  [][(CreateBucketError /\ bucket) => upload'.phase = "upload"]_vars

\* a declared type of the image family: "image/..."
ClaimedImageType(type) ==
  /\ Len(type) >= 6
  /\ <<type[1], type[2], type[3], type[4], type[5], type[6]>> = <<"i", "m", "a", "g", "e", "/">>

\* C11: a selected file that is not of an image type, or is larger than
\* 5,242,880 bytes, is rejected with a notice and starts no call to the
\* storage; an image of at most 5,242,880 bytes passes and the upload starts.
C11_FileValidation ==
  [][\A type \in FileTypes, size \in FileSizes :
       SelectFile(type, size) =>
         IF ClaimedImageType(type) /\ size <= 5242880
           THEN upload'.phase = "listBuckets" /\ isUploadingImage'
           ELSE /\ upload' = NoUpload
                /\ ~isUploadingImage'
                /\ toast' \in {ToastSelectImage, ToastImageTooLarge}
                /\ UNCHANGED <<bucket, objects>>]_vars

\* an image of exactly 5,242,880 bytes has passed validation
C11_Witness ==
  /\ upload # NoUpload
  /\ upload.file.size = 5242880
  /\ isUploadingImage

\* a file over the limit has been rejected
C11_WitnessRejected ==
  /\ toast = ToastImageTooLarge
  /\ upload = NoUpload
  /\ ~isUploadingImage

\* ------------------------------------------------------------------ localStorage variant
\* JSON.parse(savedArticles) when the item is set
SavedList == IF newsArticles.present THEN newsArticles.list ELSE <<>>

\* the article object handleAddArticle builds: id is Date.now()
LocalArticle(d, time) ==
  [id |-> time, title |-> d.title, content |-> d.content,
   category |-> d.category, image |-> d.image, date |-> time,
   excerpt |-> Excerpt(d.content)]

\* articles.filter(article => article.id !== id)
WithoutId(list, id) == SelectSeq(list, LAMBDA a : a.id # id)

\* articles.find(a => a.id === parseInt(id)) || null
FindById(list, id) ==
  IF \E i \in 1..Len(list) : list[i].id = id
    THEN list[CHOOSE i \in 1..Len(list) :
                /\ list[i].id = id
                /\ \A j \in 1..(i - 1) : list[j].id # id]
    ELSE NoArticle

\* the dashboard is opened: useState initial values, then the mount effect;
\* without the login flag it navigates to "/admin" and loads nothing
LocalMount ==
  /\ localPage' = IF adminLoggedIn THEN "dashboard" ELSE "login"
  /\ localArticles' = IF adminLoggedIn THEN SavedList ELSE <<>>
  /\ localDraft' = EmptyDraft
  /\ localAdding' = FALSE
  /\ localToast' = "none"
  /\ UNCHANGED <<newsArticles, adminLoggedIn, now, deletedIds, localRouteId, localArticle>>
  /\ UNCHANGED <<storeVars, user, page, idxVars, detailVars, adminVars, uploadVars>>

\* handleLogout: removeItem("adminLoggedIn"), toast, navigate("/admin")
LocalLogout ==
  /\ localPage = "dashboard"
  /\ adminLoggedIn' = FALSE
  /\ localPage' = "login"
  /\ localArticles' = <<>>
  /\ localDraft' = EmptyDraft
  /\ localAdding' = FALSE
  /\ localToast' = ToastLoggedOut
  /\ UNCHANGED <<newsArticles, now, deletedIds, localRouteId, localArticle>>
  /\ UNCHANGED <<storeVars, user, page, idxVars, detailVars, adminVars, uploadVars>>

\* Index (localStorage variant) is opened: the mount effect shows the saved
\* list, or shows the mock articles and saves them; the filter effect then
\* runs on the empty search term
LocalIndexMount ==
  /\ LET shown == IF newsArticles.present THEN newsArticles.list ELSE MockArticles(now)
     IN  /\ idxArticles' = shown
         /\ filteredArticles' = FilterArticles(shown, <<>>)
         /\ newsArticles' = Item(shown)
  /\ searchTerm' = <<>>
  /\ UNCHANGED <<idxFetch, filterEffect, idxNotice>>
  /\ UNCHANGED <<adminLoggedIn, now, localPage, localArticles, localDraft, localAdding, localToast, deletedIds, localRouteId, localArticle>>
  /\ UNCHANGED <<storeVars, user, page, detailVars, adminVars, uploadVars>>

\* handleLogout in another tab of the browser
OtherTabLogout ==
  /\ adminLoggedIn
  /\ adminLoggedIn' = FALSE
  /\ UNCHANGED <<newsArticles, now, localPage, localArticles, localDraft, localAdding, localToast, deletedIds, localRouteId, localArticle>>
  /\ UNCHANGED <<storeVars, user, page, idxVars, detailVars, adminVars, uploadVars>>

LocalToggleAdding ==
  /\ localPage = "dashboard"
  /\ localAdding' = ~localAdding
  /\ UNCHANGED <<newsArticles, adminLoggedIn, now, localPage, localArticles, localDraft, localToast, deletedIds, localRouteId, localArticle>>
  /\ UNCHANGED <<storeVars, user, page, idxVars, detailVars, adminVars, uploadVars>>

\* onChange of a form field: setNewArticle({...newArticle, field: value})
LocalSetField(field, value) ==
  /\ localPage = "dashboard"
  /\ localAdding
  /\ localDraft[field] # value
  /\ localDraft' = [localDraft EXCEPT ![field] = value]
  /\ UNCHANGED <<newsArticles, adminLoggedIn, now, localPage, localArticles, localAdding, localToast, deletedIds, localRouteId, localArticle>>
  /\ UNCHANGED <<storeVars, user, page, idxVars, detailVars, adminVars, uploadVars>>

\* handleAddArticle: the early return, else the article is put in front of
\* the dashboard's list and that list is saved
LocalHandleAddArticle ==
  /\ localPage = "dashboard"
  /\ localAdding
  /\ IF MissingRequired(localDraft)
       THEN /\ localToast' = ToastFillRequired
            /\ UNCHANGED <<newsArticles, localArticles, localDraft, localAdding>>
       ELSE /\ Len(localArticles) < MaxLocal
            /\ LET updatedArticles == <<LocalArticle(localDraft, now)>> \o localArticles
               IN  /\ localArticles' = updatedArticles
                   /\ newsArticles' = Item(updatedArticles)
            /\ localToast' = ToastAdded
            /\ localDraft' = EmptyDraft
            /\ localAdding' = FALSE
  /\ UNCHANGED <<adminLoggedIn, now, localPage, deletedIds, localRouteId, localArticle>>
  /\ UNCHANGED <<storeVars, user, page, idxVars, detailVars, adminVars, uploadVars>>

\* handleDeleteArticle(article.id) of a listed article
LocalHandleDeleteArticle(id) ==
  /\ localPage = "dashboard"
  /\ \E i \in 1..Len(localArticles) : localArticles[i].id = id
  /\ LET updatedArticles == WithoutId(localArticles, id)
     IN  /\ localArticles' = updatedArticles
         /\ newsArticles' = Item(updatedArticles)
  /\ deletedIds' = deletedIds \cup {id}
  /\ localToast' = ToastDeleted
  /\ UNCHANGED <<adminLoggedIn, now, localPage, localDraft, localAdding, localRouteId, localArticle>>
  /\ UNCHANGED <<storeVars, user, page, idxVars, detailVars, adminVars, uploadVars>>

\* A dashboard in another tab, which has just loaded the saved list, runs
\* handleAddArticle on a filled form ...
OtherTabAdd ==
  /\ adminLoggedIn
  /\ Len(SavedList) < MaxLocal
  /\ newsArticles' =
       Item(<<LocalArticle([EmptyDraft EXCEPT !.title = <<"a">>, !.content = <<"a">>,
                                              !.category = <<"a">>], now)>> \o SavedList)
  /\ UNCHANGED <<adminLoggedIn, now, localPage, localArticles, localDraft, localAdding, localToast, deletedIds, localRouteId, localArticle>>
  /\ UNCHANGED <<storeVars, user, page, idxVars, detailVars, adminVars, uploadVars>>

\* ... or handleDeleteArticle on a listed article
OtherTabDelete(id) ==
  /\ adminLoggedIn
  /\ \E i \in 1..Len(SavedList) : SavedList[i].id = id
  /\ newsArticles' = Item(WithoutId(SavedList, id))
  /\ deletedIds' = deletedIds \cup {id}
  /\ UNCHANGED <<adminLoggedIn, now, localPage, localArticles, localDraft, localAdding, localToast, localRouteId, localArticle>>
  /\ UNCHANGED <<storeVars, user, page, idxVars, detailVars, adminVars, uploadVars>>

\* the clock advances
Tick ==
  /\ now < LastTick
  /\ now' = now + 1
  /\ UNCHANGED <<newsArticles, adminLoggedIn, localPage, localArticles, localDraft, localAdding, localToast, deletedIds, localRouteId, localArticle>>
  /\ UNCHANGED <<storeVars, user, page, idxVars, detailVars, adminVars, uploadVars>>

\* Article is opened for an id: the [id] effect reads the saved list and
\* looks the id up; without a saved list the article stays null
LocalOpenArticle(id) ==
  /\ localRouteId' = id
  /\ localArticle' = FindById(SavedList, id)
  /\ UNCHANGED <<newsArticles, adminLoggedIn, now, localPage, localArticles, localDraft, localAdding, localToast, deletedIds>>
  /\ UNCHANGED <<storeVars, user, page, idxVars, detailVars, adminVars, uploadVars>>

InitLocal ==
  /\ InitStore
  /\ user = NoUser
  /\ page = "local"
  /\ IndexUnmounted
  /\ DetailUnmounted
  /\ AdminUnmounted
  /\ newsArticles = NoItem
  /\ adminLoggedIn = TRUE
  /\ now = FirstTick
  /\ localPage = "login"
  /\ localArticles = <<>>
  /\ localDraft = EmptyDraft
  /\ localAdding = FALSE
  /\ localToast = "none"
  /\ deletedIds = {}
  /\ localRouteId = 0
  /\ localArticle = NoArticle
  /\ UploadIdle

NextLocal ==
  \/ LocalMount
  \/ LocalLogout
  \/ OtherTabLogout
  \/ LocalToggleAdding
  \/ \E field \in {"title", "content", "category"} : LocalSetField(field, <<"a">>)
  \/ LocalHandleAddArticle
  \/ \E id \in LocalIds : LocalHandleDeleteArticle(id)
  \/ OtherTabAdd
  \/ \E id \in LocalIds : OtherTabDelete(id)
  \/ Tick
  \/ \E id \in LocalIds : LocalOpenArticle(id)

SpecLocal == InitLocal /\ [][NextLocal]_vars

\* The listing and the dashboard of the localStorage variant on one browser
NextSeed ==
  \/ LocalIndexMount
  \/ LocalMount
  \/ LocalLogout
  \/ \E id \in LocalIds : LocalHandleDeleteArticle(id)
  \/ OtherTabAdd
  \/ \E id \in LocalIds : OtherTabDelete(id)
  \/ Tick

SpecSeed == InitLocal /\ [][NextSeed]_vars

\* ------------------------------------------------------------------ claims: localStorage variant
\* C4: a create invoked without an authenticated actor (the login flag is
\* gone) writes nothing to the saved list.
C4_CreateRequiresActor ==
  [][(LocalHandleAddArticle /\ ~adminLoggedIn) => newsArticles' = newsArticles]_vars

\* C8: once the delete of an id has been carried out, every later opening of
\* the article of that id ends in the Not Found state.
C8_DeletedStaysNotFound ==
  [][\A id \in LocalIds :
       (LocalOpenArticle(id) /\ id \in deletedIds) => localArticle' = NoArticle]_vars

\* C9: a delete removes the record of that id from the saved list and leaves
\* every other saved record as it was.
C9_DeleteRemovesOnlyThatRecord ==
  [][\A id \in LocalIds :
       LocalHandleDeleteArticle(id) => newsArticles' = Item(WithoutId(SavedList, id))]_vars

\* C15: every saved record has the excerpt derived from its own content,
\* the records the listing seeds included.
C15_ExcerptDerivedFromContent ==
  \A i \in 1..Len(SavedList) :
    SavedList[i].excerpt = ClaimedExcerpt(SavedList[i].content)

\* C16: no two saved records have the same id, also when two creates
\* happen within one tick of the clock.
C16_IdsUnique ==
  \A i, j \in 1..Len(SavedList) : i # j => SavedList[i].id # SavedList[j].id

\* the creation time of a listed article: created_at of a row of the
\* store, date of a saved article of the localStorage variant
CreationTime(r) == IF "created_at" \in DOMAIN r THEN r.created_at ELSE r.date

NewestFirst(list) ==
  \A i, j \in 1..Len(list) : i < j => CreationTime(list[i]) >= CreationTime(list[j])

SavedRecords(item) == {item.list[i] : i \in 1..Len(item.list)}

\* C14: a saved record keeps its fields as long as it exists; it appears
\* only in the step that creates it and disappears only in a step that
\* deletes its id.
C14_OnlyCreateAndDelete ==
  [][LET before == SavedRecords(newsArticles)
         after == SavedRecords(newsArticles')
     IN  /\ \A r \in before, q \in after : r.id = q.id => r = q
         /\ \A r \in after \ before :
              r.id = now /\ (LocalHandleAddArticle \/ OtherTabAdd)
         /\ \A r \in before \ after :
              LocalHandleDeleteArticle(r.id) \/ OtherTabDelete(r.id)]_vars

\* C21: the dashboard's list-all fetch is gated on the session: every step
\* in which the dashboard issues a fetchArticles() query ends with an actor
\* signed in.
C21_ListFetchOnlyWithActor ==
  [][listReqs' > listReqs => user' # NoUser]_vars

\* C22: for every store state, the public listing is exactly the admin
\* listing restricted to its published records, in the same order.
C22_PublicIsPublishedPartOfAdmin ==
  ListPublished(store) = SelectSeq(ListAllRows(store), LAMBDA r : r.published)

\* the public view shows a fetched list while the store also holds an
\* unpublished record, which only the admin listing returns
C22_Witness ==
  /\ page = "index"
  /\ idxFetch = "done"
  /\ idxArticles = ListPublished(store)
  /\ Len(idxArticles) >= 1
  /\ Len(ListAllRows(store)) > Len(idxArticles)

\* C23: when an upload succeeds on the open form, the markup is spliced
\* into the draft as it is at that moment: title, category and image keep
\* the values edited meanwhile, and the content is the current content with
\* the markup inserted at the cursor.
C23_EditsDuringUploadKept ==
  [][\A u \in Urls :
       (UploadOk(u) /\ isAddingArticle) =>
          LET content == newArticle.content
              c == cursor
          IN  newArticle' = [newArticle EXCEPT !.content =
                SubSeq(content, 1, c) \o ClaimedMarkup(u) \o SubSeq(content, c + 1, Len(content))]]_vars

\* C24: the detail view shows the article of the current route id: once
\* every by-id fetch has been answered, an article on display has the id of
\* the route, whatever the order in which the answers arrived.
C24_DetailShowsCurrentRoute ==
  (page = "detail" /\ detailReqs = {} /\ article # NoArticle) => article.id = routeId

\* ------------------------------------------------------------------ refreshes
\* One admin session on a store nobody else writes: the dashboard was
\* mounted with an actor and its first fetchArticles() has shown the empty
\* store; every create, delete and refresh succeeds, and refreshes overlap.
InitRefresh ==
  /\ InitStore
  /\ user \in Actors
  /\ page = "admin"
  /\ IndexUnmounted
  /\ DetailUnmounted
  /\ articles = <<>>
  /\ isAddingArticle = FALSE
  /\ newArticle = EmptyDraft
  /\ toast = "none"
  /\ insertReqs = <<>>
  /\ deleteReqs = <<>>
  /\ listReqs = 0
  /\ listResps = <<>>
  /\ LocalUnused
  /\ UploadIdle

NextRefresh ==
  \/ \E t \in {<<"a">>} : SetTitle(t)
  \/ \E c \in {<<"a">>} : SetContent(c)
  \/ \E c \in {<<"a">>} : SetCategory(c)
  \/ ToggleAdding
  \/ HandleAddArticle
  \/ \E i \in DOMAIN insertReqs : InsertSucceeds(i, MaxRefresh)
  \/ \E id \in 1..MaxId : HandleDeleteArticle(id)
  \/ \E i \in DOMAIN deleteReqs : DeleteSucceeds(i, MaxRefresh)
  \/ ListServe
  \/ \E i \in DOMAIN listResps : ListDeliver(i)

SpecRefresh == InitRefresh /\ [][NextRefresh]_vars

\* C25: once every create, delete and list refresh of the session has
\* completed, the dashboard's list equals the contents of the store.
C25_ListEqualsStoreWhenQuiet ==
  (page = "admin" /\ insertReqs = <<>> /\ deleteReqs = <<>> /\ ListInFlight = 0)
    => articles = ListAllRows(store)

\* C26: in the localStorage variant a create puts exactly one new record
\* at the head of the saved list and a delete takes the records of one id
\* out of it; every other saved record stays in place, also when the saved
\* list was changed elsewhere since this dashboard loaded it.
C26_CreateAndDeleteTouchOneRecord ==
  [][/\ (LocalHandleAddArticle /\ ~MissingRequired(localDraft)) =>
          /\ newsArticles'.present
          /\ Len(newsArticles'.list) = Len(SavedList) + 1
          /\ \A i \in 1..Len(SavedList) : newsArticles'.list[i + 1] = SavedList[i]
     /\ \A id \in LocalIds :
          LocalHandleDeleteArticle(id) =>
            SavedRecords(newsArticles') = {r \in SavedRecords(newsArticles) : r.id # id}]_vars

\* ------------------------------------------------------------------ detail view, answered requests
\* useParams() gives no id: the route matched without the parameter
NoRouteId == 0

\* Article mounted without an id: fetchArticle() returns before its try
\* block, no query is sent and nothing calls setLoading
DetailMountedNoId ==
  /\ routeId = NoRouteId
  /\ article = NoArticle
  /\ loading = TRUE
  /\ detailReqs = {}

\* an answer to one of the by-id queries in flight
DetailAnswer == \E id \in RouteIds : DetailFetchOk(id) \/ DetailFetchFail(id)

\* The detail view from any entry: with an id or without one, the table
\* changing meanwhile.
InitDetail ==
  /\ InitStore
  /\ user = NoUser
  /\ AdminUnmounted
  /\ LocalUnused
  /\ UploadIdle
  /\ page = "detail"
  /\ IndexUnmounted
  /\ \/ \E id \in RouteIds : DetailMounted(id)
     \/ DetailMountedNoId

NextDetail ==
  \/ \E id \in RouteIds : DetailChangeId(id)
  \/ \E id \in RouteIds : DetailFetchOk(id)
  \/ \E id \in RouteIds : DetailFetchFail(id)
  \/ \E payload \in RemotePayloads : RemoteInsert(payload)
  \/ \E id \in 1..MaxId : RemoteDelete(id)

\* the promise of every query settles: an answer that can arrive does
SpecDetail == InitDetail /\ [][NextDetail]_vars /\ WF_vars(DetailAnswer)

\* C27: from every entry into the detail view, with a route id or without
\* one, loading eventually becomes false, and the view is then Not Found
\* or shows an article.
C27_EventuallyLeavesLoading ==
  <>(~loading /\ (article = NoArticle \/ article.id \in 1..MaxId))

\* C28: the uploading flag is true exactly while handleImageUpload is
\* between its validation and its finally block: it is raised only by the
\* selection of a file that passes validation, and a successful upload, a
\* failed bucket check and a failed upload all leave it false.
C28_UploadingOnlyInFlight ==
  /\ [](isUploadingImage <=> upload # NoUpload)
  /\ [][(~isUploadingImage /\ isUploadingImage') =>
          \E type \in FileTypes, size \in FileSizes :
            /\ SelectFile(type, size)
            /\ ClaimedImageType(type)
            /\ size <= MaxFileSize]_vars
  /\ [][((\E u \in Urls : UploadOk(u)) \/ ListBucketsError \/ CreateBucketError \/ UploadError)
          => (isUploadingImage /\ ~isUploadingImage')]_vars

\* an upload has succeeded and the Add Image control is enabled again
C28_Witness ==
  /\ ~isUploadingImage
  /\ upload = NoUpload
  /\ toast = ToastUploaded
  /\ objects = 1

\* C29: a create that ends in a notice of failure (required fields, no
\* actor, store error or exception) changes neither the draft nor the open
\* form and starts no refresh; a draft is reset, a form closed and a refresh
\* started only by a successful create, which leaves the empty draft with
\* the placeholder image, the form closed and one more refresh in flight.
C29_FailedCreateKeepsDraft ==
  [][/\ (toast' \in {ToastFillRequired, ToastMustLogin, ToastCreateFailed} /\
           (HandleAddArticle \/ \E i \in DOMAIN insertReqs : InsertError(i))) =>
          /\ newArticle' = newArticle
          /\ isAddingArticle' = isAddingArticle
          /\ listReqs' = listReqs
     /\ (newArticle' # newArticle \/ isAddingArticle' # isAddingArticle \/ listReqs' > listReqs) =>
          /\ toast' = ToastAdded
          /\ Cardinality(store') = Cardinality(store) + 1
          /\ newArticle' = [title |-> <<>>, content |-> <<>>, category |-> <<>>,
                            image |-> PlaceholderImage]
          /\ ~isAddingArticle'
          /\ listReqs' = listReqs + 1]_vars

\* the store has refused the insert of a complete draft: the notice is
\* shown, the form is still open on that draft
C29_Witness ==
  /\ toast = ToastCreateFailed
  /\ isAddingArticle
  /\ ~MissingRequired(newArticle)
  /\ store = {}

\* C30: in the public listing, whenever no filter effect is pending the
\* displayed list is the filter of the fetched list by the current search
\* term, also when the fetch completed after the term was typed; and the
\* displayed list is at all times a subsequence of the fetched list.
C30_DisplayedIsFilterOfFetched ==
  /\ FilterSettled => filteredArticles = FilterArticles(idxArticles, searchTerm)
  /\ page = "index" =>
       filteredArticles =
         SelectSeq(idxArticles,
                   LAMBDA a : \E i \in 1..Len(filteredArticles) : filteredArticles[i] = a)

\* the fetch is done, a non-empty term is set, the effects have run and
\* the term has excluded one of two fetched articles
C30_Witness ==
  /\ FilterSettled
  /\ idxFetch = "done"
  /\ searchTerm # <<>>
  /\ Len(idxArticles) = 2
  /\ Len(filteredArticles) = 1

====
